---- MODULE Spec2Model ----
(***************************************************************************)
(* Event_logger: the schedule/event store, its alert evaluator and the     *)
(* alert poller, as implemented by                                         *)
(*   src/web_app.py  class ScheduleLogger (desktop front-end, in-memory    *)
(*                   list + schedule_log.json, background _alert_loop)     *)
(*   src/app.py      the Flask handlers (each request loads the file,      *)
(*                   mutates the loaded list and rewrites the file)        *)
(*                                                                         *)
(* Time is counted in ticks of PollSeconds (30 s, the poller's sleep), so  *)
(* a minute is MinuteTicks = 2 ticks.  A date is the day number of a       *)
(* clock value; strings are sequences of one-character strings.            *)
(***************************************************************************)
EXTENDS Integers, Sequences, FiniteSets, TLC

VARIABLES
    clock,          \* datetime.now(), in ticks since day 0 00:00:00
    file,           \* schedule_log.json: [state, data]
    events,         \* ScheduleLogger.events (desktop in-memory list)
    alert_running,  \* ScheduleLogger.alert_running
    alert_callback, \* ScheduleLogger.alert_callback ("None" or "on_alert")
    threads,        \* the live _alert_loop threads, in creation order
    ret,            \* the last ScheduleLogger call of the GUI: [op, value]
    req,            \* the Flask request being served by each worker
    hist            \* observations of the run (ids assigned, alerts reported)

vars == <<clock, file, events, alert_running, alert_callback, threads, ret, req, hist>>

-----------------------------------------------------------------------------
(* Bounds of the model *)

MaxEvents == 2      \* records a collection may hold
MaxOps == 4         \* GUI calls and Flask requests observed in one run
MaxTicks == 4       \* ticks the clock advances past StartClock
MaxLoops == 2       \* _alert_loop threads alive at once
MaxStr == 5         \* characters of a time slot handed to the parser alone

(* Program constants *)

PollSeconds == 30           \* time.sleep(30)
DefaultAlertMinutes == 5    \* event.get('alert_minutes', 5)

TickSeconds == PollSeconds
MinuteTicks == 60 \div TickSeconds
DayTicks == 24 * 60 * MinuteTicks
PollTicks == PollSeconds \div TickSeconds

\* the run starts on day 0 at 23:58:00, so that it crosses midnight
StartClock == (23 * 60 + 58) * MinuteTicks

-----------------------------------------------------------------------------
(* Strings *)

Max(S) == CHOOSE x \in S : \A y \in S : y <= x
Min(S) == CHOOSE x \in S : \A y \in S : x <= y

Digits == {"0", "1", "2", "3", "4", "5", "6", "7", "8", "9"}

DigitVal(c) ==
    CASE c = "0" -> 0 [] c = "1" -> 1 [] c = "2" -> 2 [] c = "3" -> 3
      [] c = "4" -> 4 [] c = "5" -> 5 [] c = "6" -> 6 [] c = "7" -> 7
      [] c = "8" -> 8 [] c = "9" -> 9

\* str.split('-')[0]: the text before the first '-', the whole text if none
split_first(s) ==
    LET dashes == {i \in 1..Len(s) : s[i] = "-"}
    IN  IF dashes = {} THEN s ELSE SubSeq(s, 1, Min(dashes) - 1)

\* a strip that removes nothing
strip_nothing(s) == s

\* str.strip(): leading and trailing blanks removed
strip(s) ==
    LET solid == {i \in 1..Len(s) : s[i] # " "}
    IN  IF solid = {} THEN <<>> ELSE SubSeq(s, Min(solid), Max(solid))

\* value of a string of digits
RECURSIVE int_of(_)
int_of(s) ==
    IF s = <<>> THEN 0
    ELSE 10 * int_of(SubSeq(s, 1, Len(s) - 1)) + DigitVal(s[Len(s)])

AllDigits(s) == \A i \in 1..Len(s) : s[i] \in Digits

\* datetime.strptime(..., "%H:%M") on the time part: %H is 2[0-3]|[0-1]\d|\d,
\* %M is [0-5]\d|\d, and nothing may remain.  [ok, minutes]
strptime_HM(s) ==
    LET colons == {i \in 1..Len(s) : s[i] = ":"}
        k == IF colons = {} THEN 0 ELSE Min(colons)
        hh == SubSeq(s, 1, k - 1)
        mm == SubSeq(s, k + 1, Len(s))
        good ==
            /\ k \in {2, 3}
            /\ AllDigits(hh)
            /\ Len(hh) = 2 => int_of(hh) <= 23
            /\ Len(mm) \in {1, 2}
            /\ AllDigits(mm)
            /\ Len(mm) = 2 => int_of(mm) <= 59
    IN  IF good THEN [ok |-> TRUE, minutes |-> 60 * int_of(hh) + int_of(mm)]
        ELSE [ok |-> FALSE, minutes |-> 0]

\* the date of an instant: now.strftime("%Y-%m-%d"), datetime.now().date()
date_of(t) == t \div DayTicks

\* ScheduleLogger.parse_time_slot with the date it reads from the clock
\* (today); also the parsing inlined in app.py check_alerts.  [ok, time]
parse_time_slot(time_slot, today) ==
    LET start_time == strip(split_first(time_slot))
        hm == strptime_HM(start_time)
    IN  IF hm.ok
        THEN [ok |-> TRUE, time |-> today * DayTicks + hm.minutes * MinuteTicks]
        ELSE [ok |-> FALSE, time |-> 0]

-----------------------------------------------------------------------------
(* Event records and the collection *)

Ids(evs) == {evs[i].id : i \in 1..Len(evs)}

HasId(evs, id) == \E i \in 1..Len(evs) : evs[i].id = id

\* index of the first record with this id (next(...), the for loops)
IndexOf(evs, id) == Min({i \in 1..Len(evs) : evs[i].id = id})

\* a record that is born with its alert already spent
new_event_spent(id, now, time_slot, client, alert_minutes) ==
    [id |-> id,
     timestamp |-> now,
     date |-> date_of(now),
     time_slot |-> time_slot,
     client |-> client,
     status |-> "logged",
     alert_minutes |-> alert_minutes,
     alert_triggered |-> TRUE]

\* the dict literal of add_event
new_event(id, now, time_slot, client, alert_minutes) ==
    [id |-> id,
     timestamp |-> now,
     date |-> date_of(now),
     time_slot |-> time_slot,
     client |-> client,
     status |-> "logged",
     alert_minutes |-> alert_minutes,
     alert_triggered |-> FALSE]

\* an update that also re-arms the alert
merge_rearming(event, kwargs, now) ==
    [k \in DOMAIN event \cup DOMAIN kwargs \cup {"last_modified"} |->
        IF k = "last_modified" THEN now
        ELSE IF k = "alert_triggered" THEN FALSE
        ELSE IF k \in DOMAIN kwargs THEN kwargs[k]
        ELSE event[k]]

\* dict.update(kwargs) followed by the last_modified stamp
merge(event, kwargs, now) ==
    [k \in DOMAIN event \cup DOMAIN kwargs \cup {"last_modified"} |->
        IF k = "last_modified" THEN now
        ELSE IF k \in DOMAIN kwargs THEN kwargs[k]
        ELSE event[k]]

\* event.get('alert_minutes', 5)
get_alert_minutes(event) ==
    IF "alert_minutes" \in DOMAIN event THEN event.alert_minutes
    ELSE DefaultAlertMinutes

\* the window test of check_alerts: now >= alert_time and now < event_time
in_window(now, event_time, alert_minutes) ==
    LET alert_time == event_time - alert_minutes * MinuteTicks
    IN  now >= alert_time /\ now < event_time

Remove(evs, i) == SubSeq(evs, 1, i - 1) \o SubSeq(evs, i + 1, Len(evs))

\* the ids update and delete are called with
IdRange == 1..MaxEvents

-----------------------------------------------------------------------------
(* The persisted file *)

\* state: "absent", "json" (a list of records), "malformed" (text that is
\* not JSON) or "undecodable" (bytes that are not text in the file's encoding)
NoFile == [state |-> "absent", data |-> <<>>]

\* json.load lets through what is not a JSONDecodeError: f.read() raises
\* UnicodeDecodeError on bytes it cannot decode
load_raises(f) == f.state = "undecodable"

\* a save that keeps the records of the file that the saved list lacks
save_json_file_merging(old, data) ==
    [state |-> "json",
     data |-> data \o SelectSeq(old.data,
                        LAMBDA e : \A i \in 1..Len(data) : data[i].id # e.id)]

\* json.dump(data, f) on a file opened with 'w': the whole file is rewritten
save_json_file(old, data) == [state |-> "json", data |-> data]

\* load_json_file(EVENTS_FILE, []): the decoded list; [] when the file is
\* absent or json.load raises JSONDecodeError (where load_raises is false)
load_json_file(f) == IF f.state = "json" THEN f.data ELSE <<>>

\* ScheduleLogger._load_events
_load_events(f) == IF f.state = "json" THEN f.data ELSE <<>>

\* ScheduleLogger._save_events
_save_events(old, evs) == [state |-> "json", data |-> evs]

-----------------------------------------------------------------------------
(* Observations: what a run has assigned and reported so far *)

NoHist ==
    [ops |-> 0,             \* GUI calls and Flask requests so far
     assigned |-> <<>>,     \* ids assigned by creates, in order
     reported |-> {},       \* ids /api/check-alerts has returned
     rereported |-> {},     \* ids it has returned more than once
     marked |-> {},         \* ids a poller pass has marked alert_triggered
     called |-> {},         \* ids on_alert has been invoked for
     recalled |-> {},       \* ids on_alert has been invoked for more than once
     lastWrite |-> [op |-> "none", id |-> 0, resp |-> "none"],
                            \* the latest Flask request that wrote the file
     flash |-> [op |-> "none", category |-> "none"],
                            \* the flash() of the latest Flask request served
     csv |-> [state |-> "none", header |-> {}, rows |-> <<>>],
                            \* the latest export: the file export_to_csv wrote,
                            \* the body export_csv sent
     raised |-> {},         \* operations ended by an exception of the load
     late |-> FALSE]        \* a sleep has been seen to end a tick late

\* one more GUI call or Flask request
Count(h) == [h EXCEPT !.ops = @ + 1]

\* the id now names a new record, its record is gone, or its alert was reset
Forget(h, ids) ==
    [h EXCEPT !.reported = @ \ ids, !.rereported = @ \ ids,
              !.marked = @ \ ids, !.called = @ \ ids, !.recalled = @ \ ids]

-----------------------------------------------------------------------------
(* ScheduleLogger: the store operations the GUI thread calls *)

\* a _next_id that counts the records instead of taking the largest id
_next_id_by_count(evs) == Len(evs) + 1

\* ScheduleLogger._next_id
_next_id(evs) == IF evs = <<>> THEN 1 ELSE Max(Ids(evs)) + 1

\* the ids a pass found fired when it began (seen), less those that a
\* create, a delete or a reset has since made fresh
Unsee(ths, ids) == [t \in DOMAIN ths |-> [ths[t] EXCEPT !.seen = @ \ ids]]

add_event(time_slot, client, alert_minutes) ==
    /\ hist.ops < MaxOps
    /\ Len(events) < MaxEvents
    /\ LET event == new_event(_next_id(events), clock, time_slot, client, alert_minutes)
       IN  /\ events' = Append(events, event)
           /\ file' = _save_events(file, events')
           /\ hist' = [Forget(Count(hist), {event.id})
                           EXCEPT !.assigned = Append(@, event.id)]
           /\ threads' = Unsee(threads, {event.id})
    /\ ret' = [op |-> "add_event", value |-> "event"]
    /\ UNCHANGED <<clock, alert_running, alert_callback, req>>

update_event(event_id, kwargs) ==
    /\ hist.ops < MaxOps
    /\ hist' = Count(hist)
    /\ IF HasId(events, event_id)
       THEN /\ events' = [events EXCEPT ![IndexOf(events, event_id)] = merge(@, kwargs, clock)]
            /\ file' = _save_events(file, events')
            /\ ret' = [op |-> "update_event", value |-> "True"]
       ELSE /\ ret' = [op |-> "update_event", value |-> "False"]
            /\ UNCHANGED <<events, file>>
    /\ UNCHANGED <<clock, alert_running, alert_callback, threads, req>>

delete_event(event_id) ==
    /\ hist.ops < MaxOps
    /\ IF HasId(events, event_id)
       THEN /\ events' = Remove(events, IndexOf(events, event_id))
            /\ file' = _save_events(file, events')
            /\ ret' = [op |-> "delete_event", value |-> "True"]
            /\ hist' = Forget(Count(hist), {event_id})
            /\ threads' = Unsee(threads, {event_id})
       ELSE /\ ret' = [op |-> "delete_event", value |-> "False"]
            /\ hist' = Count(hist)
            /\ UNCHANGED <<events, file, threads>>
    /\ UNCHANGED <<clock, alert_running, alert_callback, req>>

reset_alerts_for_today ==
    LET today == date_of(clock)
        todays == {events[i].id : i \in {j \in 1..Len(events) : events[j].date = today}}
    IN  /\ hist.ops < MaxOps
        /\ events' = [i \in 1..Len(events) |->
                        IF events[i].date = today
                        THEN [events[i] EXCEPT !.alert_triggered = FALSE]
                        ELSE events[i]]
        /\ file' = _save_events(file, events')
        /\ ret' = [op |-> "reset_alerts_for_today", value |-> "True"]
        /\ hist' = Forget(Count(hist), todays)
        /\ threads' = Unsee(threads, todays)
        /\ UNCHANGED <<clock, alert_running, alert_callback, req>>

\* csv.DictWriter(f, fieldnames=keys)._dict_to_list: the row of a record, ''
\* for a field the record lacks
csv_row(fieldnames, event) ==
    [k \in fieldnames |-> IF k \in DOMAIN event THEN event[k] ELSE ""]

\* the records writerows gets through: it raises ValueError at the first
\* record that has a field not in fieldnames
RECURSIVE csv_fitting(_, _)
csv_fitting(fieldnames, evs) ==
    IF evs = <<>> \/ ~(DOMAIN Head(evs) \subseteq fieldnames) THEN <<>>
    ELSE <<Head(evs)>> \o csv_fitting(fieldnames, Tail(evs))

\* writeheader() and writerows(events) with the keys of the first record:
\* what has been written, and whether writerows raised
write_csv(evs) ==
    LET keys == DOMAIN evs[1]
        fitting == csv_fitting(keys, evs)
    IN  [state |-> IF Len(fitting) = Len(evs) THEN "written" ELSE "ValueError",
         header |-> keys,
         rows |-> [i \in 1..Len(fitting) |-> csv_row(keys, fitting[i])]]

export_to_csv ==
    /\ hist.ops < MaxOps
    /\ IF events = <<>>
       THEN /\ ret' = [op |-> "export_to_csv", value |-> "False"]
            /\ hist' = Count(hist)
       ELSE LET out == write_csv(events)
            IN  /\ ret' = [op |-> "export_to_csv",
                           value |-> IF out.state = "written" THEN "True" ELSE "ValueError"]
                /\ hist' = [Count(hist) EXCEPT !.csv = out]
    /\ UNCHANGED <<clock, file, events, alert_running, alert_callback, threads, req>>

-----------------------------------------------------------------------------
(* ScheduleLogger: the alert monitor *)

NewThread ==
    [pc |-> "top", now |-> 0, i |-> 0, wake |-> 0, seen |-> {}, fired |-> {}, saves |-> 0]

\* a start that does not test alert_running
start_alert_monitor_unguarded(callback) ==
    /\ hist.ops < MaxOps
    /\ hist' = Count(hist)
    /\ Len(threads) < MaxLoops
    /\ alert_callback' = callback
    /\ alert_running' = TRUE
    /\ threads' = Append(threads, NewThread)
    /\ ret' = [op |-> "start_alert_monitor", value |-> "True"]
    /\ UNCHANGED <<clock, file, events, req>>

start_alert_monitor(callback) ==
    /\ hist.ops < MaxOps
    /\ hist' = Count(hist)
    /\ IF alert_running
       THEN /\ ret' = [op |-> "start_alert_monitor", value |-> "False"]
            /\ UNCHANGED <<alert_callback, alert_running, threads>>
       ELSE /\ Len(threads) < MaxLoops
            /\ alert_callback' = callback
            /\ alert_running' = TRUE
            /\ threads' = Append(threads, NewThread)
            /\ ret' = [op |-> "start_alert_monitor", value |-> "True"]
    /\ UNCHANGED <<clock, file, events, req>>

stop_alert_monitor ==
    /\ hist.ops < MaxOps
    /\ hist' = Count(hist)
    /\ IF ~alert_running
       THEN /\ ret' = [op |-> "stop_alert_monitor", value |-> "False"]
            /\ UNCHANGED <<alert_callback, alert_running>>
       ELSE /\ alert_running' = FALSE
            /\ alert_callback' = "None"
            /\ ret' = [op |-> "stop_alert_monitor", value |-> "True"]
    /\ UNCHANGED <<clock, file, events, threads, req>>

\* a loop that enters check_alerts without testing alert_running
_alert_loop_unchecked(t) ==
    /\ t \in DOMAIN threads
    /\ threads[t].pc = "top"
    /\ threads' = [threads EXCEPT ![t] =
            [pc |-> "pass", now |-> clock, i |-> 1, wake |-> 0,
             seen |-> hist.marked \cup hist.reported, fired |-> {},
                 saves |-> 0]]
    /\ UNCHANGED <<clock, file, events, alert_running, alert_callback, ret, req, hist>>

\* _alert_loop: the while test; when it holds, check_alerts is entered and
\* reads the clock (now, today)
_alert_loop(t) ==
    /\ t \in DOMAIN threads
    /\ threads[t].pc = "top"
    /\ IF alert_running
       THEN threads' = [threads EXCEPT ![t] =
                [pc |-> "pass", now |-> clock, i |-> 1, wake |-> 0,
                 seen |-> hist.marked \cup hist.reported, fired |-> {},
                 saves |-> 0]]
       ELSE threads' = Remove(threads, t)
    /\ UNCHANGED <<clock, file, events, alert_running, alert_callback, ret, req, hist>>

\* a loop body that does not compare the event's date with today
fires_any_date(event, now, clock_today) ==
    /\ ~event.alert_triggered
    /\ LET event_time == parse_time_slot(event.time_slot, clock_today)
       IN  /\ event_time.ok
           /\ in_window(now, event_time.time, get_alert_minutes(event))

\* a loop body that goes on to fire an event whose time slot did not parse
fires_unparsed(event, now, clock_today) ==
    /\ event.date = date_of(now)
    /\ ~event.alert_triggered
    /\ LET event_time == parse_time_slot(event.time_slot, clock_today)
       IN  event_time.ok => in_window(now, event_time.time, get_alert_minutes(event))

\* does the loop body of check_alerts fire this event?  now is the pass's
\* now; clock_today is the date parse_time_slot reads from the clock
fires(event, now, clock_today) ==
    /\ event.date = date_of(now)
    /\ ~event.alert_triggered
    /\ LET event_time == parse_time_slot(event.time_slot, clock_today)
       IN  /\ event_time.ok
           /\ in_window(now, event_time.time, get_alert_minutes(event))

\* the callback test and call of check_alerts
Notify(h, callback, id) ==
    IF callback = "None" THEN h
    ELSE IF id \in h.called THEN [h EXCEPT !.recalled = @ \cup {id}]
    ELSE [h EXCEPT !.called = @ \cup {id}]

\* check_alerts: one iteration of "for event in self.events"; the end of the
\* list ends the pass and time.sleep(30) begins
check_alerts(t) ==
    /\ t \in DOMAIN threads
    /\ threads[t].pc = "pass"
    /\ LET th == threads[t]
           i == th.i
       IN  IF i > Len(events)
           THEN /\ threads' = [threads EXCEPT ![t] =
                        [NewThread EXCEPT !.pc = "sleep", !.wake = clock + PollTicks]]
                /\ UNCHANGED <<events, file, hist>>
           ELSE IF fires(events[i], th.now, date_of(clock))
           THEN /\ hist' = [Notify(hist, alert_callback, events[i].id)
                                EXCEPT !.marked = @ \cup {events[i].id}]
                /\ events' = [events EXCEPT ![i].alert_triggered = TRUE]
                /\ file' = _save_events(file, events')
                /\ threads' = [threads EXCEPT ![t].i = i + 1,
                                              ![t].fired = @ \cup {events[i].id},
                                              ![t].saves = @ + 1]
           ELSE /\ threads' = [threads EXCEPT ![t].i = i + 1]
                /\ UNCHANGED <<events, file, hist>>
    /\ UNCHANGED <<clock, alert_running, alert_callback, ret, req>>

\* time.sleep(30) returns
sleep_returns(t) ==
    /\ t \in DOMAIN threads
    /\ threads[t].pc = "sleep"
    /\ clock >= threads[t].wake
    /\ threads' = [threads EXCEPT ![t] = NewThread]
    /\ UNCHANGED <<clock, file, events, alert_running, alert_callback, ret, req, hist>>

\* time passes
Tick ==
    /\ clock < StartClock + MaxTicks
    /\ clock' = clock + 1
    /\ UNCHANGED <<file, events, alert_running, alert_callback, threads, ret, req, hist>>

-----------------------------------------------------------------------------
(* app.py: the Flask handlers.  A request loads the file (first step), then *)
(* mutates the loaded list and rewrites the file (second step); requests of *)
(* different workers interleave between the two.                            *)

Workers == {1, 2}

NoForm == [time_slot |-> <<>>, client |-> "", alert_minutes |-> 0]

Idle ==
    [pc |-> "idle", op |-> "none", event_id |-> 0, form |-> NoForm,
     events |-> <<>>, now |-> 0, stale |-> FALSE]

\* max([e['id'] for e in events], default=0) + 1
next_id(evs) == (IF evs = <<>> THEN 0 ELSE Max(Ids(evs))) + 1

\* the request arrives and runs up to load_json_file(EVENTS_FILE, []);
\* check_alerts reads now right after it
app_load(w, op, event_id, form) ==
    /\ req[w].pc = "idle"
    /\ hist.ops < MaxOps
    /\ op = "add_event" => Len(load_json_file(file)) < MaxEvents
    /\ IF load_raises(file)
       THEN /\ hist' = [Count(hist) EXCEPT !.raised = @ \cup {op}]
            /\ UNCHANGED req
       ELSE /\ req' = [req EXCEPT ![w] =
                    [pc |-> "loaded", op |-> op, event_id |-> event_id, form |-> form,
                     events |-> load_json_file(file), now |-> clock, stale |-> FALSE]]
            /\ hist' = Count(hist)
    /\ UNCHANGED <<clock, file, events, alert_running, alert_callback, threads, ret>>

\* the request of worker w ends; a write makes the load of every other
\* request in flight stale
Respond(w, wrote) ==
    [v \in Workers |->
        IF v = w THEN Idle
        ELSE IF wrote /\ req[v].pc = "loaded" THEN [req[v] EXCEPT !.stale = TRUE]
        ELSE req[v]]

\* the list add_event saves
added(evs, form, now) ==
    Append(evs, new_event(next_id(evs), now, form.time_slot, form.client,
                          form.alert_minutes))

app_add_event(w) ==
    /\ req[w].pc = "loaded" /\ req[w].op = "add_event"
    /\ LET new == added(req[w].events, req[w].form, clock)
       IN  /\ file' = save_json_file(file, new)
           /\ hist' = [Forget(hist, {new[Len(new)].id})
                           EXCEPT !.assigned = Append(@, new[Len(new)].id),
                                   !.lastWrite = [op |-> "add_event", id |-> new[Len(new)].id,
                                                  resp |-> "redirect"],
                                   !.flash = [op |-> "add_event", category |-> "success"]]
           /\ threads' = Unsee(threads, {new[Len(new)].id})
    /\ req' = Respond(w, TRUE)
    /\ UNCHANGED <<clock, events, alert_running, alert_callback, ret>>

\* the list edit_event saves (the event is present)
edited(evs, event_id, form, now) ==
    [evs EXCEPT ![IndexOf(evs, event_id)] = merge(@, form, now)]

app_edit_event(w) ==
    /\ req[w].pc = "loaded" /\ req[w].op = "edit_event"
    /\ IF HasId(req[w].events, req[w].event_id)
       THEN /\ file' = save_json_file(file,
                          edited(req[w].events, req[w].event_id, req[w].form, clock))
            /\ hist' = [hist EXCEPT !.lastWrite = [op |-> "edit_event", id |-> req[w].event_id,
                                                   resp |-> "redirect"],
                                    !.flash = [op |-> "edit_event", category |-> "success"]]
            /\ req' = Respond(w, TRUE)
       ELSE /\ hist' = [hist EXCEPT !.flash = [op |-> "edit_event", category |-> "error"]]
            /\ req' = Respond(w, FALSE)
            /\ UNCHANGED file
    /\ UNCHANGED <<clock, events, alert_running, alert_callback, threads, ret>>

\* the list delete_event saves
deleted(evs, event_id) == SelectSeq(evs, LAMBDA e : e.id # event_id)

app_delete_event(w) ==
    /\ req[w].pc = "loaded" /\ req[w].op = "delete_event"
    /\ file' = save_json_file(file, deleted(req[w].events, req[w].event_id))
    /\ hist' = [Forget(hist, {req[w].event_id})
                    EXCEPT !.lastWrite = [op |-> "delete_event", id |-> req[w].event_id,
                                          resp |-> "redirect"],
                           !.flash = [op |-> "delete_event", category |-> "success"]]
    /\ threads' = Unsee(threads, {req[w].event_id})
    /\ req' = Respond(w, TRUE)
    /\ UNCHANGED <<clock, events, alert_running, alert_callback, ret>>

\* the ids check_alerts puts in alerts: the parsing uses today, the date of now
alerts_of(evs, now) ==
    {evs[i].id : i \in {j \in 1..Len(evs) : fires(evs[j], now, date_of(now))}}

\* the loaded list after the loop of check_alerts
checked(evs, now) ==
    [i \in 1..Len(evs) |->
        IF fires(evs[i], now, date_of(now))
        THEN [evs[i] EXCEPT !.alert_triggered = TRUE]
        ELSE evs[i]]

app_check_alerts(w) ==
    /\ req[w].pc = "loaded" /\ req[w].op = "check_alerts"
    /\ LET alerts == alerts_of(req[w].events, req[w].now)
       IN  IF alerts # {}
           THEN /\ file' = save_json_file(file, checked(req[w].events, req[w].now))
                /\ hist' = [hist EXCEPT
                        !.rereported = @ \cup (alerts \cap hist.reported),
                        !.reported = @ \cup alerts,
                        !.lastWrite = [op |-> "check_alerts", id |-> Min(alerts),
                                       resp |-> "json"]]
                /\ req' = Respond(w, TRUE)
           ELSE /\ req' = Respond(w, FALSE)
                /\ UNCHANGED <<file, hist>>
    /\ UNCHANGED <<clock, events, alert_running, alert_callback, threads, ret>>

\* export_csv: the warning and redirect when the loaded list is empty, else
\* the CSV built from it (an exception of writerows is a 500 response)
app_export_csv(w) ==
    /\ req[w].pc = "loaded" /\ req[w].op = "export_csv"
    /\ IF req[w].events = <<>>
       THEN hist' = [hist EXCEPT !.flash = [op |-> "export_csv", category |-> "warning"]]
       ELSE hist' = [hist EXCEPT !.flash = [op |-> "export_csv", category |-> "none"],
                                 !.csv = write_csv(req[w].events)]
    /\ req' = Respond(w, FALSE)
    /\ UNCHANGED <<clock, file, events, alert_running, alert_callback, threads, ret>>

-----------------------------------------------------------------------------
(* Inputs *)

\* "24:00-0:30": no hour 24, the parser returns None
SlotBad == <<"2", "4", ":", "0", "0", "-", "0", ":", "3", "0">>

\* "23:59-0:30" and "0:01-0:30"
SlotLate == <<"2", "3", ":", "5", "9", "-", "0", ":", "3", "0">>
SlotEarly == <<"0", ":", "0", "1", "-", "0", ":", "3", "0">>

\* what the add forms submit
AddForms ==
    {[time_slot |-> SlotLate, client |-> "acme", alert_minutes |-> 1],
     [time_slot |-> SlotEarly, client |-> "acme", alert_minutes |-> DefaultAlertMinutes]}

\* what the edit forms submit
EditForms ==
    {[time_slot |-> SlotLate, client |-> "zenith", alert_minutes |-> 1],
     [time_slot |-> SlotBad, client |-> "zenith", alert_minutes |-> 1]}

\* the callback the GUI registers (ModernGUI.on_alert)
Callbacks == {"on_alert"}

-----------------------------------------------------------------------------
(* Specifications *)

Init ==
    /\ clock = StartClock
    /\ file = NoFile
    /\ events = _load_events(file)
    /\ alert_running = FALSE
    /\ alert_callback = "None"
    /\ threads = <<>>
    /\ ret = [op |-> "none", value |-> "None"]
    /\ req = [w \in Workers |-> Idle]
    /\ hist = NoHist

\* the GUI thread's calls into the store
StoreNext ==
    \/ \E f \in AddForms : add_event(f.time_slot, f.client, f.alert_minutes)
    \/ \E id \in IdRange, f \in EditForms : update_event(id, f)
    \/ \E id \in IdRange : delete_event(id)
    \/ reset_alerts_for_today

\* the alert monitor
MonitorNext ==
    \/ \E cb \in Callbacks : start_alert_monitor(cb)
    \/ stop_alert_monitor
    \/ \E t \in 1..MaxLoops : _alert_loop(t)
    \/ \E t \in 1..MaxLoops : check_alerts(t)
    \/ \E t \in 1..MaxLoops : sleep_returns(t)

\* the Flask workers
AppNext ==
    \/ \E w \in Workers, f \in AddForms : app_load(w, "add_event", 0, f)
    \/ \E w \in Workers, id \in IdRange, f \in EditForms : app_load(w, "edit_event", id, f)
    \/ \E w \in Workers, id \in IdRange : app_load(w, "delete_event", id, NoForm)
    \/ \E w \in Workers : app_load(w, "check_alerts", 0, NoForm)
    \/ \E w \in Workers : app_add_event(w)
    \/ \E w \in Workers : app_edit_event(w)
    \/ \E w \in Workers : app_delete_event(w)
    \/ \E w \in Workers : app_check_alerts(w)

\* the exports of both front-ends
ExportNext ==
    \/ export_to_csv
    \/ \E w \in Workers : app_load(w, "export_csv", 0, NoForm)
    \/ \E w \in Workers : app_export_csv(w)

Next == StoreNext \/ MonitorNext \/ AppNext \/ ExportNext \/ Tick

Spec == Init /\ [][Next]_vars

SpecStore == Init /\ [][StoreNext]_vars
SpecMonitor == Init /\ [][StoreNext \/ MonitorNext \/ Tick]_vars
SpecApp == Init /\ [][AppNext]_vars
SpecShared == Init /\ [][StoreNext \/ AppNext]_vars
SpecExport == Init /\ [][StoreNext \/ ExportNext]_vars

\* a start on a file left by an earlier run that no longer holds JSON
MalformedFiles ==
    {[state |-> "malformed", data |-> <<>>],
     [state |-> "undecodable", data |-> <<>>]}

\* ModernGUI.__init__ is about to construct its ScheduleLogger
InitRecover ==
    /\ clock = StartClock
    /\ file \in MalformedFiles
    /\ events = <<>>
    /\ alert_running = FALSE
    /\ alert_callback = "None"
    /\ threads = <<>>
    /\ ret = [op |-> "ModernGUI", value |-> "None"]
    /\ req = [w \in Workers |-> Idle]
    /\ hist = NoHist

\* ScheduleLogger.__init__
__init__ ==
    /\ ret.op = "ModernGUI"
    /\ IF load_raises(file)
       THEN /\ ret' = [op |-> "__init__", value |-> "UnicodeDecodeError"]
            /\ hist' = [hist EXCEPT !.raised = @ \cup {"__init__"}]
            /\ UNCHANGED <<events, alert_running, alert_callback>>
       ELSE /\ events' = _load_events(file)
            /\ alert_running' = FALSE
            /\ alert_callback' = "None"
            /\ ret' = [op |-> "__init__", value |-> "None"]
            /\ UNCHANGED hist
    /\ UNCHANGED <<clock, file, threads, req>>

\* self.logger exists: the constructor has returned
Constructed ==
    /\ ret.op # "ModernGUI"
    /\ ~(ret.op = "__init__" /\ ret.value = "UnicodeDecodeError")

RecoverNext ==
    \/ __init__
    \/ Constructed /\ StoreNext
    \/ AppNext

SpecRecover == InitRecover /\ [][RecoverNext]_vars

\* the run starts a minute earlier, at 23:57:00, before the alert window of
\* a 23:59 slot opens
InitLive ==
    /\ clock = StartClock - MinuteTicks
    /\ file = NoFile
    /\ events = _load_events(file)
    /\ alert_running = FALSE
    /\ alert_callback = "None"
    /\ threads = <<>>
    /\ ret = [op |-> "none", value |-> "None"]
    /\ req = [w \in Workers |-> Idle]
    /\ hist = NoHist

\* time as the loop meets it.  A pass takes no tick (the while test and the
\* for loop run at one reading of the clock).  time.sleep(30) begins when the
\* pass ends, so two passes are a little more than 30 s apart and the excess
\* adds up: the clock read after a sleep is its wake tick, or, once in the
\* few minutes of a run, the tick after it.
TimePasses ==
    LET due == \E t \in DOMAIN threads :
                    threads[t].pc = "sleep" /\ clock = threads[t].wake
    IN  /\ \A t \in DOMAIN threads :
              /\ threads[t].pc = "sleep"
              /\ clock <= threads[t].wake
        /\ clock < StartClock + MaxTicks
        /\ due => ~hist.late
        /\ clock' = clock + 1
        /\ hist' = [hist EXCEPT !.late = @ \/ due]
        /\ UNCHANGED <<file, events, alert_running, alert_callback, threads, ret, req>>

\* the steps of the _alert_loop threads
LoopSteps ==
    \E t \in 1..MaxLoops : _alert_loop(t) \/ check_alerts(t) \/ sleep_returns(t)

\* some thread has a step to take: it is at the while test, inside a pass,
\* or its sleep is over (ENABLED <<LoopSteps>>_vars, as every step of a
\* thread changes threads)
LoopReady ==
    \E t \in DOMAIN threads :
        \/ threads[t].pc \in {"top", "pass"}
        \/ threads[t].pc = "sleep" /\ clock >= threads[t].wake

LiveNext == StoreNext \/ MonitorNext \/ TimePasses

\* the threads are scheduled (WF_vars(LoopSteps), written out with
\* LoopReady for ENABLED <<LoopSteps>>_vars) and time goes on
SpecLive ==
    /\ InitLive
    /\ [][LiveNext]_vars
    /\ ([]<>(~LoopReady) \/ []<><<LoopSteps>>_vars)
    /\ WF_vars(TimePasses)

\* both evaluators on the one file: the desktop store and its poller, and
\* the /api/check-alerts requests of the browser front-end
EvaluateNext ==
    \/ \E w \in Workers : app_load(w, "check_alerts", 0, NoForm)
    \/ \E w \in Workers : app_check_alerts(w)

SpecAlerts == Init /\ [][StoreNext \/ MonitorNext \/ EvaluateNext \/ Tick]_vars

\* the time slots handed to parse_time_slot alone: every text of at most
\* MaxStr characters over digits, ':', '-' and the blank
SlotChars == {"1", "6", ":", "-", " "}

TimeSlots == UNION {[1..n -> SlotChars] : n \in 0..MaxStr}

\* a ScheduleLogger on an empty store is about to be handed a time slot
InitParse ==
    /\ clock = StartClock
    /\ file = NoFile
    /\ events = _load_events(file)
    /\ alert_running = FALSE
    /\ alert_callback = "None"
    /\ threads = <<>>
    /\ \E s \in TimeSlots : ret = [op |-> "time_slot", value |-> s]
    /\ req = [w \in Workers |-> Idle]
    /\ hist = NoHist

\* event_time = self.parse_time_slot(time_slot)
call_parse_time_slot ==
    /\ ret.op = "time_slot"
    /\ ret' = [op |-> "parse_time_slot",
               value |-> [time_slot |-> ret.value,
                          event_time |-> parse_time_slot(ret.value, date_of(clock))]]
    /\ UNCHANGED <<clock, file, events, alert_running, alert_callback, threads, req, hist>>

SpecParse == InitParse /\ [][call_parse_time_slot]_vars

-----------------------------------------------------------------------------
(* Properties *)

UniqueIds(evs) == \A i, j \in 1..Len(evs) : evs[i].id = evs[j].id => i = j

TriggeredIn(evs, id) == \E i \in 1..Len(evs) : evs[i].id = id /\ evs[i].alert_triggered

UntriggeredIn(evs, id) == \E i \in 1..Len(evs) : evs[i].id = id /\ ~evs[i].alert_triggered

\* C1: every id a create assigns is greater than every id assigned by an
\* earlier create, so the id of a deleted record is never assigned again.
C1_IdsNeverReused ==
    \A i, j \in 1..Len(hist.assigned) :
        i < j => hist.assigned[i] < hist.assigned[j]

\* C2: in every reachable state no two records of a collection (the desktop
\* list, the persisted file, the list a request has loaded) have the same id.
C2_UniqueIds ==
    /\ UniqueIds(events)
    /\ UniqueIds(file.data)
    /\ \A w \in Workers : UniqueIds(req[w].events)

\* both front-ends have created records, a record was deleted and another
\* created after it, and two records are stored
C2_Witness ==
    /\ Len(file.data) = 2
    /\ Len(events) = 2
    /\ file.data # events
    /\ Len(hist.assigned) >= 3

\* the window of the claim: slotStart is the slot's start on the date of now
ClaimWindow(event, now) ==
    LET slotStart == parse_time_slot(event.time_slot, date_of(now)).time
    IN  /\ slotStart - get_alert_minutes(event) * MinuteTicks <= now
        /\ now < slotStart

\* thread t examines events[threads[t].i] in this step
Examines(t) ==
    /\ t \in DOMAIN threads
    /\ threads[t].pc = "pass"
    /\ threads[t].i <= Len(events)
    /\ t \in DOMAIN threads'
    /\ threads'[t].pc = "pass"
    /\ threads'[t].i = threads[t].i + 1

\* C3: a pass at instant now fires an event dated today, not yet triggered
\* and with a parsable time slot iff slotStart - alertMinutes <= now < slotStart.
C3_FiresIffInWindow ==
    [][\A t \in 1..MaxLoops :
          Examines(t) =>
              LET i == threads[t].i
                  now == threads[t].now
              IN  ( /\ events[i].date = date_of(now)
                    /\ ~events[i].alert_triggered
                    /\ parse_time_slot(events[i].time_slot, date_of(now)).ok )
                  => ( events'[i].alert_triggered <=> ClaimWindow(events[i], now) )
      ]_vars

\* C4: an event that an evaluation pass (of the poller or of
\* /api/check-alerts) had fired before a poller pass began is not fired by
\* that pass, unless a reset, or the record's deletion, came in between.
C4_NoRefire ==
    \A t \in DOMAIN threads : threads[t].fired \cap threads[t].seen = {}

\* C5: an event is reported as fired by at most one evaluation pass, also when
\* two /api/check-alerts requests overlap.
C5_ReportedOnce == hist.rereported = {}

\* this step is a create that assigns this id (to a new record)
Created(id) ==
    /\ Len(hist'.assigned) = Len(hist.assigned) + 1
    /\ hist'.assigned[Len(hist'.assigned)] = id

\* C6: no step other than reset_alerts_for_today takes a stored record's
\* alert_triggered from true to false.
C6_OnlyResetUntriggers ==
    [][ \/ reset_alerts_for_today
        \/ \A id \in 1..MaxOps :
              \/ Created(id)
              \/ /\ ~(TriggeredIn(file.data, id) /\ UntriggeredIn(file'.data, id))
                 /\ ~(TriggeredIn(events, id) /\ UntriggeredIn(events', id))
      ]_vars

\* the code's conditions for a request to rewrite the file
Writes(r) ==
    \/ r.op \in {"add_event", "delete_event"}
    \/ r.op = "edit_event" /\ HasId(r.events, r.event_id)
    \/ r.op = "check_alerts" /\ alerts_of(r.events, r.now) # {}

\* what the request makes of the list it loaded
Result(r, now) ==
    CASE r.op = "add_event" -> added(r.events, r.form, now)
      [] r.op = "edit_event" -> edited(r.events, r.event_id, r.form, now)
      [] r.op = "delete_event" -> deleted(r.events, r.event_id)
      [] r.op = "check_alerts" -> checked(r.events, r.now)

\* worker w, whose load another request's write has made stale, writes in
\* this step
LateWrite(w) ==
    /\ req[w].pc = "loaded"
    /\ req[w].stale
    /\ Writes(req[w])
    /\ req'[w].pc = "idle"

\* C7: when two load-mutate-write cycles overlap the last writer wins: the
\* file then holds what the later writer made of its own load, without the
\* earlier writer's mutation, and both requests got their normal response.
C7_LastWriterWins ==
    [][\A w \in Workers :
          LateWrite(w) =>
              LET mine == req[w]
                  theirs == hist.lastWrite
              IN  /\ file'.data = Result(mine, clock)
                  /\ ( /\ theirs.op = "add_event"
                       /\ mine.op # "add_event"
                       /\ ~HasId(mine.events, theirs.id) )
                     => ~HasId(file'.data, theirs.id)
                  /\ ( /\ theirs.op = "check_alerts"
                       /\ mine.op \in {"add_event", "edit_event"}
                       /\ UntriggeredIn(mine.events, theirs.id) )
                     => UntriggeredIn(file'.data, theirs.id)
                  /\ ( /\ theirs.op = "delete_event"
                       /\ HasId(mine.events, theirs.id)
                       /\ ~(mine.op = "delete_event" /\ mine.event_id = theirs.id) )
                     => HasId(file'.data, theirs.id)
                  /\ theirs.resp \in {"redirect", "json"}
                  /\ hist'.lastWrite.resp \in {"redirect", "json"}
      ]_vars

\* an alert that check_alerts reported and marked is unmarked in the file
\* after an edit that had loaded before the mark was saved
C7_Witness ==
    /\ hist.lastWrite.op = "edit_event"
    /\ \A w \in Workers : req[w].pc = "idle"
    /\ \E id \in hist.reported : UntriggeredIn(file.data, id)

\* C8: whenever no operation is in progress the desktop list equals the
\* content of the persisted file.
C8_MemoryEqualsFile ==
    (\A w \in Workers : req[w].pc = "idle") => events = _load_events(file)

\* C9: for every event a poller pass has marked, on_alert was invoked exactly
\* once.
C9_CallbackOncePerFired ==
    \A id \in hist.marked : id \in hist.called /\ id \notin hist.recalled

\* this step is a call of op by the GUI
Calls(op) == hist'.ops = hist.ops + 1 /\ req' = req /\ ret'.op = op

\* C10: start when running returns False and changes nothing; start when
\* stopped returns True, registers the callback and starts a loop;
\* stop when not running returns False and changes nothing; stop when running
\* returns True and leaves the monitor stopped.
C10_TwoStateMachine ==
    [][ /\ Calls("start_alert_monitor") =>
              IF alert_running
              THEN /\ ret'.value = "False"
                   /\ UNCHANGED <<alert_running, alert_callback, threads>>
              ELSE /\ ret'.value = "True"
                   /\ alert_running'
                   /\ alert_callback' \in Callbacks
                   /\ threads' = Append(threads, NewThread)
        /\ Calls("stop_alert_monitor") =>
              IF alert_running
              THEN /\ ret'.value = "True"
                   /\ ~alert_running'
                   /\ threads' = threads
              ELSE /\ ret'.value = "False"
                   /\ UNCHANGED <<alert_running, alert_callback, threads>>
      ]_vars

\* start was called while the monitor was running: it returned False and the
\* one loop is still the only one
C10_Witness ==
    /\ ret = [op |-> "start_alert_monitor", value |-> "False"]
    /\ alert_running
    /\ alert_callback = "on_alert"
    /\ Len(threads) = 1

\* C11: after stop_alert_monitor has cleared alert_running no pass begins
\* until start_alert_monitor sets it again; a pass in progress is left alone
\* and goes on to the end of the list; a loop ends only at its while test, and
\* it ends there when it finds alert_running cleared.
C11_StopIsCooperative ==
    [][ /\ (alert_running' /\ ~alert_running) => Calls("start_alert_monitor")
        /\ Len(threads') < Len(threads) =>
              /\ ~alert_running
              /\ \E t \in DOMAIN threads :
                    threads[t].pc = "top" /\ threads' = Remove(threads, t)
        /\ Len(threads') = Len(threads) =>
              \A t \in DOMAIN threads :
                 /\ (threads[t].pc = "top" /\ threads'[t].pc # "top") =>
                        alert_running /\ threads'[t].pc = "pass"
                 /\ threads[t].pc = "pass" =>
                        \/ threads'[t].pc = "pass" /\ threads'[t].i >= threads[t].i
                        \/ threads'[t].pc = "sleep" /\ threads[t].i > Len(events)
      ]_vars

\* stop returned True while a pass was in progress: the pass went on and
\* marked its event (with the callback gone), and the loop has since ended at
\* its next test
C11_Witness ==
    /\ ret = [op |-> "stop_alert_monitor", value |-> "True"]
    /\ ~alert_running
    /\ threads = <<>>
    /\ hist.marked \ hist.called # {}

\* C12: the pass a poller thread is in has written the file exactly once if
\* it has fired an event, however many it has fired, and not at all if it has
\* fired none.
C12_OneWritePerPass ==
    \A t \in DOMAIN threads :
        threads[t].saves = IF threads[t].fired = {} THEN 0 ELSE 1

\* C13: a poller pass leaves an event whose date is not the date of the
\* pass's now as it is and fires nothing for it, whatever its alert_triggered,
\* time slot and alert_minutes; and whenever the file or the clock has
\* changed, what /api/check-alerts computes from the stored list at that
\* instant neither reports nor changes such an event.
C13_OtherDatesNeverFire ==
    [][ /\ \A t \in 1..MaxLoops :
              (Examines(t) /\ events[threads[t].i].date # date_of(threads[t].now)) =>
                  /\ events' = events
                  /\ file' = file
                  /\ hist' = hist
                  /\ threads'[t].fired = threads[t].fired
        /\ (file' # file \/ clock' # clock) =>
              LET stored == file'.data
                  others == {i \in 1..Len(stored) : stored[i].date # date_of(clock')}
                  alerts == alerts_of(stored, clock')
                  after == checked(stored, clock')
              IN  \A i \in others : stored[i].id \notin alerts /\ after[i] = stored[i]
      ]_vars

\* a pass whose now is on the next day has gone past a not yet triggered event
\* of the day before, whose slot and alert_minutes would put now inside the
\* window, and has left it untriggered
C13_Witness ==
    \E t \in DOMAIN threads :
        /\ threads[t].pc = "pass"
        /\ \E j \in 1..Len(events) :
              /\ j < threads[t].i
              /\ events[j].date # date_of(threads[t].now)
              /\ ~events[j].alert_triggered
              /\ parse_time_slot(events[j].time_slot, date_of(threads[t].now)).ok
              /\ ClaimWindow(events[j], threads[t].now)

\* the text has a '-' and what stands before the first one is, once
\* trimmed, a time of the form %H:%M
DashedTime(s) ==
    LET dashes == {i \in 1..Len(s) : s[i] = "-"}
    IN  /\ dashes # {}
        /\ strptime_HM(strip(SubSeq(s, 1, Min(dashes) - 1))).ok

\* the texts %H accepts, and their values: one digit, or two up to 23
HourTexts ==
    {<<a>> : a \in Digits} \cup
    {h \in {<<a, b>> : a \in Digits, b \in Digits} : 10 * DigitVal(h[1]) + DigitVal(h[2]) <= 23}

\* the texts %M accepts: one digit, or two up to 59
MinuteTexts ==
    {<<a>> : a \in Digits} \cup
    {m \in {<<a, b>> : a \in Digits, b \in Digits} : 10 * DigitVal(m[1]) + DigitVal(m[2]) <= 59}

TextValue(t) == IF Len(t) = 1 THEN DigitVal(t[1]) ELSE 10 * DigitVal(t[1]) + DigitVal(t[2])

\* the texts "%H:%M" accepts
ClockTexts == {hm[1] \o <<":">> \o hm[2] : hm \in HourTexts \X MinuteTexts}

\* minutes after midnight of a clock text
MinutesOf(c) ==
    LET k == CHOOSE i \in 1..Len(c) : c[i] = ":"
    IN  60 * TextValue(SubSeq(c, 1, k - 1)) + TextValue(SubSeq(c, k + 1, Len(c)))

\* the start text of a time slot: what stands before the first '-', all of
\* it when there is none
StartText(s) ==
    CHOOSE p \in {SubSeq(s, 1, n) : n \in 0..Len(s)} :
        /\ \A i \in 1..Len(p) : p[i] # "-"
        /\ Len(p) = Len(s) \/ s[Len(p) + 1] = "-"

\* p without the blanks around it
Unpadded(p) ==
    CHOOSE c \in {SubSeq(p, a, b) : a \in 1..Len(p) + 1, b \in 0..Len(p)} :
        /\ c = <<>> \/ (c[1] # " " /\ c[Len(c)] # " ")
        /\ \E a \in 0..Len(p) :
              /\ a + Len(c) <= Len(p)
              /\ \A i \in 1..Len(p) :
                     IF i <= a \/ i > a + Len(c) THEN p[i] = " " ELSE p[i] = c[i - a]

\* C14 (as amended): the parser returns a time exactly when the start text of
\* the string - what stands before the first '-', or the whole string when it
\* has none - is, between blanks, an hour of one or two digits up to 23, a
\* ':' and a minute of one or two digits up to 59; the time is then that hour
\* and minute of today.
C14_ParserOnStartText ==
    ret.op = "parse_time_slot" =>
        LET c == Unpadded(StartText(ret.value.time_slot))
            got == ret.value.event_time
        IN  /\ got.ok <=> c \in ClockTexts
            /\ got.ok =>
                  got.time = date_of(clock) * DayTicks + MinutesOf(c) * MinuteTicks

\* the parser was handed a text with no '-' in it and returned a time
C14_Witness ==
    /\ ret.op = "parse_time_slot"
    /\ \A i \in 1..Len(ret.value.time_slot) : ret.value.time_slot[i] # "-"
    /\ ret.value.event_time.ok

\* C14 (as stated): the parser returns a time exactly for the strings that
\* contain a '-' and have a valid HH:MM before the first '-'; for every other
\* string (no '-', or an invalid prefix) it returns no result.
C14_ParserNeedsDash ==
    ret.op = "parse_time_slot" =>
        (ret.value.event_time.ok <=> DashedTime(ret.value.time_slot))

\* the parser returns None for this event's time slot (on any date)
\* the time slots the forms submit that parse_time_slot rejects (on any date:
\* the date only places the parsed time)
UnparsableSlots ==
    {slot \in {f.time_slot : f \in AddForms \cup EditForms} :
        ~parse_time_slot(slot, date_of(StartClock)).ok}

Unparsable(event) == event.time_slot \in UnparsableSlots

\* C15: when a poller pass comes to an event whose time slot does not parse,
\* its step changes neither the list, the file nor the callback record and
\* the pass goes on to the next event; and whenever the file or the clock
\* has changed, what /api/check-alerts computes from the stored list at that
\* instant neither reports nor changes such an event.
C15_UnparsableSkipped ==
    [][ /\ Len(threads') = Len(threads) =>
              \A t \in DOMAIN threads :
                  ( /\ threads[t].pc = "pass"
                    /\ threads[t].i <= Len(events)
                    /\ <<threads'[t].pc, threads'[t].i>> # <<threads[t].pc, threads[t].i>>
                    /\ Unparsable(events[threads[t].i]) )
                  => /\ threads'[t].pc = "pass"
                     /\ threads'[t].i = threads[t].i + 1
                     /\ threads'[t].fired = threads[t].fired
                     /\ events' = events
                     /\ file' = file
                     /\ hist' = hist
        /\ (file' # file \/ clock' # clock) =>
              LET stored == file'.data
                  bad == {i \in 1..Len(stored) : Unparsable(stored[i])}
                  alerts == alerts_of(stored, clock')
                  after == checked(stored, clock')
              IN  \A i \in bad : stored[i].id \notin alerts /\ after[i] = stored[i]
      ]_vars

\* a pass has gone past an event of today, not yet triggered, whose time slot
\* does not parse, has left it untriggered, and has fired an event after it
C15_Witness ==
    \E t \in DOMAIN threads :
        /\ threads[t].pc = "pass"
        /\ \E j, k \in 1..Len(events) :
              /\ j < k /\ k < threads[t].i
              /\ Unparsable(events[j])
              /\ events[j].date = date_of(threads[t].now)
              /\ ~events[j].alert_triggered
              /\ events[k].id \in threads[t].fired

\* new is old with the supplied fields of the record with this id set, its
\* last_modified stamped, and nothing else touched
UpdatedFrom(old, new, id, fields, now) ==
    /\ Len(new) = Len(old)
    /\ \A j \in 1..Len(old) :
          IF old[j].id # id THEN new[j] = old[j]
          ELSE /\ DOMAIN new[j] = DOMAIN old[j] \cup DOMAIN fields \cup {"last_modified"}
               /\ \A k \in DOMAIN fields : new[j][k] = fields[k]
               /\ new[j].last_modified = now
               /\ \A k \in DOMAIN old[j] \ (DOMAIN fields \cup {"last_modified"}) :
                      new[j][k] = old[j][k]

\* C16: an update of an id that is present sets the supplied fields of that
\* one record and stamps last_modified; its other fields (id, date, timestamp,
\* status, alert_triggered), every other record and the order of the records
\* are as they were in the collection the update worked on, and the result is
\* what is persisted.
C16_UpdateFrame ==
    [][ /\ (Calls("update_event") /\ ret'.value = "True") =>
              /\ \E id \in Ids(events), f \in EditForms :
                    UpdatedFrom(events, events', id, f, clock)
              /\ file'.data = events'
        /\ \A w \in Workers :
              ( /\ req[w].pc = "loaded" /\ req[w].op = "edit_event"
                /\ req'[w].pc = "idle"
                /\ HasId(req[w].events, req[w].event_id) )
              => UpdatedFrom(req[w].events, file'.data, req[w].event_id, req[w].form, clock)
      ]_vars

\* the latest write is an edit, of a record that had fired before: it is
\* stamped and still triggered, and the other record has no stamp
C16_Witness ==
    /\ hist.lastWrite.op = "edit_event"
    /\ Len(file.data) = 2
    /\ \E i, j \in 1..2 :
          /\ file.data[i].id = hist.lastWrite.id
          /\ "last_modified" \in DOMAIN file.data[i]
          /\ file.data[i].alert_triggered
          /\ file.data[i].client = "zenith"
          /\ "last_modified" \notin DOMAIN file.data[j]

\* C17: an update or a delete of an id that is absent leaves the list and
\* the file as they are and reports failure: update_event and delete_event of
\* the desktop store return False, and the edit and delete requests of the
\* web front-end flash an error.
C17_AbsentIdFails ==
    [][ /\ \A op \in {"update_event", "delete_event"} :
              /\ (Calls(op) /\ Ids(events) \cap IdRange = {}) => ret'.value = "False"
              /\ (Calls(op) /\ ret'.value = "False") => events' = events /\ file' = file
        /\ \A w \in Workers :
              ( /\ req[w].pc = "loaded"
                /\ req[w].op \in {"edit_event", "delete_event"}
                /\ req'[w].pc = "idle"
                /\ ~HasId(req[w].events, req[w].event_id) )
              => /\ file' = file
                 /\ hist'.flash = [op |-> req[w].op, category |-> "error"]
      ]_vars

\* the export of this list, as the claim has it: a header of the first
\* record's fields and one row per record
ExportOf(evs) ==
    [state |-> "written",
     header |-> DOMAIN evs[1],
     rows |-> [i \in 1..Len(evs) |-> csv_row(DOMAIN evs[1], evs[i])]]

\* C18: an export reports nothing-to-export exactly when the store is empty;
\* for every other store, records with different field sets included, it
\* produces the header of the first record's fields and one row per record.
C18_ExportAllRows ==
    [][ /\ Calls("export_to_csv") =>
              IF events = <<>> THEN ret'.value = "False" /\ hist'.csv = hist.csv
              ELSE ret'.value = "True" /\ hist'.csv = ExportOf(events)
        /\ \A w \in Workers :
              (req[w].pc = "loaded" /\ req[w].op = "export_csv" /\ req'[w].pc = "idle") =>
                  IF req[w].events = <<>>
                  THEN hist'.flash.category = "warning" /\ hist'.csv = hist.csv
                  ELSE hist'.flash.category = "none" /\ hist'.csv = ExportOf(req[w].events)
      ]_vars

-----------------------------------------------------------------------------
\* new is old with one record appended whose id is the largest id of old
\* plus one (1 when old is empty), not yet alerted and with status "logged"
CreatedFrom(old, new) ==
    /\ Len(new) = Len(old) + 1
    /\ SubSeq(new, 1, Len(old)) = old
    /\ new[Len(new)].id = (IF old = <<>> THEN 0 ELSE Max(Ids(old))) + 1
    /\ new[Len(new)].alert_triggered = FALSE
    /\ new[Len(new)].status = "logged"

\* C19: a create appends exactly one record at the end of the collection it
\* works on (the desktop list; the list the web request loaded), with id =
\* largest existing id + 1 (1 on an empty collection), alert_triggered false
\* and status "logged"; it writes the resulting collection to the file and
\* leaves every record that was there unchanged.
C19_CreateAppends ==
    [][/\ Calls("add_event") =>
            /\ CreatedFrom(events, events')
            /\ file' = [state |-> "json", data |-> events']
       /\ \A w \in Workers :
            (req[w].pc = "loaded" /\ req[w].op = "add_event" /\ req'[w].pc = "idle") =>
                /\ CreatedFrom(req[w].events, file'.data)
                /\ file'.state = "json"]_vars

\* a create on a store whose largest id is not its size: ids 2, 3 after
\* record 1 was deleted, the new record last and the file holding the list
C19_Witness ==
    /\ ret.op = "add_event"
    /\ Len(events) = 2
    /\ events[1].id = 2
    /\ events[2].id = 3
    /\ events[2].alert_triggered = FALSE
    /\ file = [state |-> "json", data |-> events]

-----------------------------------------------------------------------------
\* C20: when the file holds malformed content, loading it gives an empty
\* collection and raises nothing (the desktop constructor and every web
\* request), and the first create after such a start assigns id 1.
C20_MalformedLoadsEmpty ==
    [][/\ hist'.raised = hist.raised
       /\ (ret.op = "ModernGUI" /\ ret'.op = "__init__" /\ file \in MalformedFiles) =>
            (ret'.value = "None" /\ events' = <<>>)
       /\ \A w \in Workers :
            (req[w].pc = "idle" /\ req'[w].pc = "loaded" /\ file \in MalformedFiles) =>
                req'[w].events = <<>>
       /\ (hist.assigned = <<>> /\ hist'.assigned # <<>>) => hist'.assigned[1] = 1]_vars

-----------------------------------------------------------------------------
\* C21: only the loop of the latest start goes on evaluating.  threads is in
\* creation order and a start succeeds only after a stop, so every loop
\* before the last one has had its stop called: when such a loop comes to
\* its while test it must terminate, never enter another pass, even when a
\* start has been called again in the meantime.
C21_StoppedLoopTerminates ==
    [][\A t \in DOMAIN threads :
          ( /\ threads[t].pc = "top"
            /\ Len(threads') = Len(threads)
            /\ threads'[t].pc = "pass" )
          => t = Len(threads)]_vars

-----------------------------------------------------------------------------
\* the poller runs and the list holds the record id, dated today, not yet
\* triggered, with a time slot that parses and alert_minutes >= 1, and the
\* clock is before slotStart - alert_minutes; the slot starts within the
\* time the run observes
Armed(id) ==
    /\ alert_running
    /\ \E i \in 1..Len(events) :
          LET event == events[i]
              slotStart == parse_time_slot(event.time_slot, date_of(clock))
          IN  /\ event.id = id
              /\ event.date = date_of(clock)
              /\ ~event.alert_triggered
              /\ slotStart.ok
              /\ get_alert_minutes(event) >= 1
              /\ clock < slotStart.time - get_alert_minutes(event) * MinuteTicks
              /\ slotStart.time <= StartClock + MaxTicks

\* a pass has marked the record, or the poller was stopped, or the record
\* was edited or deleted
FiredOrExcused(id) ==
    \/ ~alert_running
    \/ ~HasId(events, id)
    \/ \E i \in 1..Len(events) :
          /\ events[i].id = id
          /\ events[i].alert_triggered \/ "last_modified" \in DOMAIN events[i]

\* C22: while the poller runs and is not stopped, an event of today with a
\* parsable slot, not yet triggered, with alert_minutes >= 1, that is neither
\* edited nor deleted and whose alert window has not begun, is eventually
\* fired by a pass, and a pass fires an event only before its slot start.
C22_EventuallyFired ==
    /\ \A id \in IdRange : Armed(id) ~> FiredOrExcused(id)
    /\ [][\A i \in 1..Len(events) :
            (/\ Len(events') = Len(events)
             /\ events'[i].id = events[i].id
             /\ ~events[i].alert_triggered
             /\ events'[i].alert_triggered) =>
                clock < parse_time_slot(events[i].time_slot, date_of(clock)).time]_vars

====
